---- MODULE Spec2Model ----
(***************************************************************************)
(* The build orchestrator of core/lib/patternlab.js as a state machine.    *)
(*                                                                         *)
(* One JavaScript thread runs the program.  A state of the model is a      *)
(* point at which other code can run: between two tasks of the event loop  *)
(* (the asynchronous directory walk of Phase 1), or inside an              *)
(* events.emit(...) call, where the listeners of a lifecycle event run     *)
(* and may call the public API.  pc names that point.                      *)
(***************************************************************************)
EXTENDS Naturals, Sequences, FiniteSets

\* ------------------------------------------------------------------ bounds
\* Number of pattern files in the source tree.
NPat == 2
\* Number of build passes that may be accepted in one run of the process.
MaxPasses == 2
\* Longest render set handed to the render loop on its own.
MaxRenderLen == 3
\* Completed builds before the first change event.
MaxListeners == 3

Pats == 1..NPat

\* ------------------------------------------------------------- vocabulary
CLEAN == "clean"
NEEDS_REBUILD == "needs_rebuild"
BUILDING == "building"
ABSENT == "absent"

\* Version stamps of the persisted dependency graph.
OLD_VERSION == "old"
CURRENT_VERSION == "current"

Kinds == {"build", "patternsonly", "serve"}

\* The two events the change listeners of build subscribe to.
Triggers == {"pattern-change", "global-change"}

VARIABLES
  cacheBust,    \* config.cacheBust
  isPattern,    \* pattern file -> the isPattern flag its Pattern object gets
  configFile,   \* what the configuration held before checkConfiguration
  outputFileSuffixes,  \* config.outputFileSuffixes
  patternlabFiles,     \* config.paths.source.patternlabFiles
  extraOutput,  \* pattern file -> pattern.extraOutput
  allMarkdown,  \* pattern file -> pattern.allMarkdown
  cleanOutputHtml, \* config.cleanOutputHtml
  addOutputFiles,  \* the engine of the patterns defines addOutputFiles
  diveErrors,      \* files the Phase 1 walk reports with an error
  diveSyncErrors,  \* files the Phase 2 walk reports with an error
  data,         \* the keys of patternlab.data
  patternData,  \* pattern -> extraOutput of pattern.patternData (<<>>: unset)
  isBusy,       \* patternlab.isBusy
  nListeners,   \* listeners registered for each of the two change events
  pc,           \* position of the build pass ("idle" when none)
  kind,         \* entry point or change event that started the pass
  cleanPublic,  \* options.cleanPublic of the pass = deletePatternDir
  incremental,  \* incrementalBuildsEnabled of the pass
  graph,        \* patternlab.graph: [loaded, version, node]
  graphFile,    \* the persisted graph: [exists, version, node]
  patterns,     \* patternlab.patterns, in discovery order
  pstate,       \* pattern -> pattern.compileState (ABSENT: no such object)
  pcode,        \* pattern -> pattern.patternPartialCode (<<>>: unset)
  visited,      \* files the Phase 1 walk has reported
  toBuild,      \* patternsToBuild
  idx,          \* position of the render loop / process loop
  cacheBuster,  \* patternlab.cacheBuster
  fs,           \* pattern -> its output files (<<>>: none)
  fs0,          \* the output files when the pass was accepted
  modified,     \* patterns modified since the graph was last persisted
  log,          \* what the current pass did, in order
  lastCall,     \* how the step just taken answered an entry-point call
  passes,       \* number of passes accepted; also new Date().getTime()
  inFlight,     \* buildPatterns promises not yet settled
  thrown,       \* a render of the pass threw into the catch handler
  rerun         \* the pass follows a completed pass with no source change

config == <<cacheBust, isPattern, configFile, outputFileSuffixes,
            patternlabFiles, extraOutput, allMarkdown, cleanOutputHtml,
            addOutputFiles, diveErrors, diveSyncErrors>>
datav == <<data, patternData>>
passv == <<kind, cleanPublic, incremental, fs0>>
graphv == <<graph, graphFile>>
patv == <<patterns, pstate, pcode, visited>>
loopv == <<toBuild, idx>>
outv == <<fs, cacheBuster>>
vars == <<config, datav, isBusy, nListeners, pc, passv, graphv, patv, loopv,
          outv, modified, log, lastCall, passes, inFlight, thrown, rerun>>

\* The source tree: every pattern but the first includes the one before it.
lineage == [p \in Pats |-> {p - 1} \cap Pats]

NoNodes == [p \in Pats |-> ABSENT]
NoFiles == [p \in Pats |-> <<>>]

\* --------------------------------------------- dependency graph (external)
\* PatternGraph.empty(): no nodes, current version.
EmptyGraph == [loaded |-> TRUE, version |-> CURRENT_VERSION, node |-> NoNodes]

\* PatternGraph.loadFromFile: the persisted graph, or an empty one when
\* nothing was persisted.
LoadFromFile ==
  IF graphFile.exists
    THEN [loaded |-> TRUE, version |-> graphFile.version, node |-> graphFile.node]
    ELSE EmptyGraph

\* loadPatternGraph(deletePatternDir)
loadPatternGraph(deletePatternDir) ==
  IF deletePatternDir THEN EmptyGraph ELSE LoadFromFile

\* PatternGraph.checkVersion(graph)
checkVersion(g) == g.version = CURRENT_VERSION

\* graph.upgradeVersion()
upgradeVersion(g) == [g EXCEPT !.version = CURRENT_VERSION]

\* graph.add(pattern), called by the load step: a pattern the graph knows
\* takes the compile state recorded for it, a new one needs a build.
GraphAdd(g, p) ==
  IF g.node[p] = ABSENT THEN [g EXCEPT !.node[p] = NEEDS_REBUILD] ELSE g

\* Patterns that transitively include a pattern of S (S included).
RECURSIVE Dependents(_)
Dependents(S) ==
  LET T == S \cup {a \in Pats : lineage[a] \cap S # {}}
  IN IF T = S THEN S ELSE Dependents(T)

\* pattern_assembler.mark_modified_patterns: patterns modified since the
\* graph was persisted need a rebuild, and so does every pattern that
\* transitively includes one of them.
mark_modified_patterns(st, loaded) ==
  [p \in Pats |->
     IF p \in loaded /\ p \in Dependents(modified) THEN NEEDS_REBUILD ELSE st[p]]

\* Ascending sequence of the elements of S.  An include edge goes from a
\* higher to a lower number, so this order puts a pattern after every
\* pattern it includes.
RECURSIVE Ascending(_)
Ascending(S) ==
  IF S = {} THEN <<>>
  ELSE LET m == CHOOSE x \in S : \A y \in S : x <= y
       IN <<m>> \o Ascending(S \ {m})

\* graph.compileOrder(): the loaded patterns, dependencies first.
compileOrder(loaded) == Ascending(loaded)

\* PatternGraph.storeToFile(patternlab)
storeToFile(g) == [exists |-> TRUE, version |-> g.version, node |-> g.node]

Range(s) == {s[i] : i \in 1..Len(s)}

\* ------------------------------------------------------------------ output
\* Content is abstracted to what it is computed from.
Template(p) == <<"template", p>>
HeadHTML(cb) == <<"head", cb>>
PartialCode(p, cb) == <<"body", p, cb>>
FooterHTML(p, cb) == <<"foot", p, cb>>

\* const nullFormatter = str => str
nullFormatter(str) == str

\* const defaultFormatter = codeString => cleanHtml(codeString, {indent_size: 2})
defaultFormatter(codeString) == <<"cleanHtml", codeString>>

\* formatters.rendered, .rawTemplate, .markupOnly; the engines define no
\* formatter of their own
formatter(str) ==
  IF cleanOutputHtml THEN defaultFormatter(str) ELSE nullFormatter(str)

\* A page that loses its foot fragment.
pageWithoutFoot(headHTML, code, footerHTML) == <<headHTML, code>>

\* const patternPage = headHTML + pattern.patternPartialCode + footerHTML
patternPage(headHTML, code, footerHTML) == <<headHTML, code, footerHTML>>

\* A file of the output directory: what getPatternLink names it after, and
\* its content.
File(type, content) == [type |-> type, content |-> content]

\* eng.addOutputFiles ? eng.addOutputFiles(paths, patternlab) : []
EngineFiles ==
  IF addOutputFiles THEN << File("engine", <<"engine", 0>>) >> ELSE <<>>

\* The output of an older release.
LegacyFiles(p) ==
  << File("rendered", <<"legacy", p>>), File("rawTemplate", Template(p)),
     File("markupOnly", <<"legacy", p>>) >>

\* writePatternFiles: the rendered page, the raw template, the markup
\* only, then the files of the engine, each written to its path.
writePatternFiles(headHTML, p, code, footerHTML) ==
  << File("rendered", formatter(patternPage(headHTML, code, footerHTML))),
     File("rawTemplate", formatter(Template(p))),
     File("markupOnly", formatter(code)) >> \o EngineFiles

\* ----------------------------------------------------------------- objects
\* A JavaScript object is a function from its own keys to their values.
EmptyObject == [k \in {} |-> ""]

\* The objects with keys among K and values among V.
Objects(K, V) == UNION {[D -> V] : D \in SUBSET K}

\* A reading of extend that lets the destination win.
extendKeepsTarget(dst, src) ==
  [k \in DOMAIN dst \cup DOMAIN src |->
     IF k \in DOMAIN dst THEN dst[k] ELSE src[k]]

\* _.extend(dst, src): the keys of src are copied over dst.
extend(dst, src) ==
  [k \in DOMAIN dst \cup DOMAIN src |->
     IF k \in DOMAIN src THEN src[k] ELSE dst[k]]

\* Object.assign({}, a, b)
assign(a, b) == extend(extend(EmptyObject, a), b)

\* delete(obj.k) for every k of K
deleteKeys(obj, K) == [k \in DOMAIN obj \ K |-> obj[k]]

\* ----------------------------------------------------------- configuration
\* The defaults of checkConfiguration.
DefaultSuffixes ==
  [rendered |-> ".rendered", rawTemplate |-> "", markupOnly |-> ".markup-only"]

\* config.outputFileSuffixes when the configuration does not have the key.
NoSuffixes == [present |-> FALSE, obj |-> EmptyObject]

\* checkConfiguration: the value it leaves in config.outputFileSuffixes.
checkConfiguration(suffixes) ==
  [present |-> TRUE,
   obj |-> extend(DefaultSuffixes,
                  IF suffixes.present THEN suffixes.obj ELSE EmptyObject)]

\* Suffix values and keys a user configuration may hold.
UserSuffixValues == {".html", ".htm"}
UserSuffixKeys == DOMAIN DefaultSuffixes \cup {"custom"}

\* The configurations handed to the constructor.
ConfigFiles ==
  [outputFileSuffixes :
     {NoSuffixes} \cup {[present |-> TRUE, obj |-> o] :
                          o \in Objects(UserSuffixKeys, UserSuffixValues)},
   patternlabFiles : {"string", "object"}]

\* ------------------------------------------------------------ pattern data
\* Keys the global data file supplies.
GlobalDataKeys == {"title"}

\* The keys removed from the extraOutput dump.
DeletedKeysButMarkdown == {"title", "state"}
DeletedKeys == {"title", "state", "markdown"}

\* The extraOutput member of pattern.patternData.
ExtraOutputDump(p) ==
  deleteKeys(assign(extraOutput[p], allMarkdown[p]), DeletedKeys)

NoPatternData == [p \in Pats |-> [written |-> FALSE, extraOutput |-> EmptyObject]]

\* Front matter of an ordinary pattern of the source tree.
PlainExtraOutput == [links |-> "eo"]
PlainMarkdown == [title |-> "md", state |-> "md", markdown |-> "md"]

\* Front matters a pattern file may carry.
ExtraOutputs == Objects({"title", "links"}, {"eo"})
Markdowns == Objects({"title", "state", "markdown", "links"}, {"md"})

\* ------------------------------------------------------------------- state
Init ==
  \* cache busting on, so that every pass stamps its output with its own
  \* time; RenderSpec takes both settings
  /\ cacheBust = TRUE
  \* every discovered template is an ordinary pattern
  /\ isPattern = [p \in Pats |-> TRUE]
  \* a configuration without outputFileSuffixes, after checkConfiguration
  /\ configFile = [outputFileSuffixes |-> NoSuffixes, patternlabFiles |-> "object"]
  /\ outputFileSuffixes = checkConfiguration(NoSuffixes)
  /\ patternlabFiles = "object"
  /\ extraOutput = [p \in Pats |-> PlainExtraOutput]
  /\ allMarkdown = [p \in Pats |-> PlainMarkdown]
  /\ cleanOutputHtml = FALSE
  /\ addOutputFiles = FALSE
  /\ diveErrors = {}
  /\ diveSyncErrors = {}
  /\ data = {}
  /\ patternData = NoPatternData
  /\ isBusy = FALSE
  /\ nListeners = 0
  /\ pc = "idle"
  /\ kind = "build"
  /\ cleanPublic = FALSE
  /\ incremental = FALSE
  /\ graph = [loaded |-> FALSE, version |-> CURRENT_VERSION, node |-> NoNodes]
  \* a fresh checkout, or the output of an older release
  /\ \/ /\ graphFile = [exists |-> FALSE, version |-> CURRENT_VERSION, node |-> NoNodes]
        /\ fs = NoFiles
     \/ /\ graphFile = [exists |-> TRUE, version |-> OLD_VERSION,
                        node |-> [p \in Pats |-> CLEAN]]
        /\ fs = [p \in Pats |-> LegacyFiles(p)]
  /\ fs0 = fs
  /\ patterns = <<>>
  /\ pstate = NoNodes
  /\ pcode = NoFiles
  /\ visited = {}
  /\ toBuild = <<>>
  /\ idx = 1
  /\ cacheBuster = 0
  /\ modified = {}
  /\ log = <<>>
  /\ lastCall = "none"
  /\ passes = 0
  /\ inFlight = 0
  /\ thrown = FALSE
  /\ rerun = FALSE

\* Points of a pass at which listeners of a lifecycle event are running.
EmitPoints == {"build_start", "global_data_end", "iteration_end",
               "bdm", "wbegin", "wend"}

\* Points at which code outside the pass can call the public API: the event
\* loop is between tasks, or a listener is running.
CallPoints == {"idle", "rejected", "threw", "walk", "process"} \cup EmitPoints

\* ------------------------------------------------------------ entry points
\* A guard that lets every call through.
NoBusyGuard == FALSE

\* The busy guard at the top of build and patternsonly.
BusyGuard == isBusy

\* The guard of the two change listeners.
ListenerGuard == ~isBusy

\* The flag is left clear.
FlagNotSet == FALSE

\* patternlab.isBusy = true
BusyAfterAccept == TRUE

\* patternlab.isBusy = true; buildPatterns(options.cleanPublic) up to its
\* first emit, in each of the n calls that got past the guard.  serve is
\* build with an empty callback.
Accept(k, c, n) ==
  /\ passes < MaxPasses
  /\ isBusy' = BusyAfterAccept
  /\ kind' = IF k = "serve" THEN "build" ELSE k
  /\ cleanPublic' = c
  /\ fs0' = fs
  /\ passes' = passes + n
  /\ inFlight' = inFlight + n
  /\ thrown' = FALSE
  /\ rerun' = (passes >= 1 /\ ~thrown /\ modified = {})
  /\ log' = << <<"build-start", 0>> >>
  /\ pc' = "build_start"
  /\ lastCall' = "accepted"
  /\ UNCHANGED <<config, datav, nListeners, incremental, graphv, patv, loopv, outv,
                 modified>>

\* 'Pattern Lab is busy building a previous run - returning early.', or a
\* change listener that finds the flag set: the request is dropped.
Dropped ==
  /\ lastCall' = "dropped"
  /\ UNCHANGED <<config, datav, isBusy, nListeners, pc, passv, graphv, patv, loopv,
                 outv, modified, log, passes, inFlight, thrown, rerun>>

\* build(callback, options), patternsonly(callback, options), serve(options)
BuildCall ==
  /\ pc \in CallPoints
  /\ IF BusyGuard THEN Dropped
     ELSE \E k \in Kinds, c \in BOOLEAN : Accept(k, c, 1)

\* A listener that leaves options.cleanPublic as the last build had it.
ListenerKeepsOption(full) == cleanPublic

\* options.cleanPublic as the listener sets it before it calls build.
ListenerOption(full) == full

\* Listeners that all call build, whatever the flag.
EveryListenerStarts(n, busy) == n

\* The passes started by n listeners of one event that run one after the
\* other, the first of them finding the flag as busy: a listener that finds
\* it clear calls build, which sets it before the next listener runs.
RECURSIVE StartedBy(_, _)
StartedBy(n, busy) ==
  IF n = 0 THEN 0
  ELSE IF busy THEN StartedBy(n - 1, busy)
       ELSE 1 + StartedBy(n - 1, BusyAfterAccept)

\* A watcher raises patternlab-pattern-change (full = FALSE) or
\* patternlab-global-change (full = TRUE), and the emitter runs every
\* registered listener in turn.  A listener that finds the flag clear sets
\* options.cleanPublic and calls build.
ChangeEvent ==
  /\ pc \in CallPoints
  /\ nListeners > 0
  /\ LET first == ListenerGuard /\ ~BusyGuard
         started == (IF first THEN 1 ELSE 0)
                    + StartedBy(nListeners - 1,
                                IF first THEN BusyAfterAccept ELSE isBusy)
     IN IF started > 0
          THEN \E full \in BOOLEAN :
                 Accept(IF full THEN "global-change" ELSE "pattern-change",
                        ListenerOption(full), started)
          ELSE Dropped

\* A source template is edited between builds.
ModifySource(p) ==
  /\ pc = "idle"
  /\ graphFile.exists
  /\ p \notin modified
  /\ modified' = modified \cup {p}
  /\ lastCall' = "none"
  /\ UNCHANGED <<config, datav, isBusy, nListeners, pc, passv, graphv, patv, loopv,
                 outv, log, passes, inFlight, thrown, rerun>>

\* ------------------------------------------------------------ buildPatterns
\* A flag that forgets the version check.
IgnoreUpgrade(deletePatternDir, graphNeedsUpgrade) == ~deletePatternDir

\* incrementalBuildsEnabled
IncrementalBuildsEnabled(deletePatternDir, graphNeedsUpgrade) ==
  ~(deletePatternDir \/ graphNeedsUpgrade)

\* setCacheBust()
setCacheBust(now) == IF cacheBust THEN now ELSE 0

\* An exit call that returns to its caller.
ExitReturns(status, next) == next

\* process.exit(status): the process is gone, nothing runs after it.
process_exit(status, next) ==
  IF status = 0 THEN "exited_zero" ELSE "exited_nonzero"

\* A data loader whose failure leaves the previous keys in place.
DataKeptOnError(ok) == IF ok THEN GlobalDataKeys ELSE data

\* patternlab.data after the try around buildPatternData.
LoadedData(ok) == IF ok THEN GlobalDataKeys ELSE {}

\* buildPatterns from the graph load to the global-data-end emit: load the
\* graph, check and upgrade its version, clear the output directory unless
\* the build is incremental, load the global data (dataOK: the data file
\* can be read and parsed), read the structural templates (templatesOK:
\* all five can be read; the process exits otherwise), reset the
\* collections, set the cache buster.
Bootstrap ==
  /\ pc = "build_start"
  /\ \E dataOK \in BOOLEAN, templatesOK \in BOOLEAN :
       LET g0 == loadPatternGraph(cleanPublic)
           graphNeedsUpgrade == ~checkVersion(g0)
           inc == IncrementalBuildsEnabled(cleanPublic, graphNeedsUpgrade)
           next == IF templatesOK THEN "global_data_end"
                   ELSE process_exit(1, "global_data_end")
           go == next = "global_data_end"
       IN /\ graph' = IF graphNeedsUpgrade THEN upgradeVersion(g0) ELSE g0
          /\ incremental' = inc
          /\ fs' = IF inc THEN fs ELSE NoFiles
          /\ data' = LoadedData(dataOK) \cup (IF go THEN {"link"} ELSE {})
          /\ log' = log \o (IF inc THEN <<>> ELSE << <<"clear", 0>> >>)
                        \o (IF dataOK THEN <<>> ELSE << <<"data-error", 0>> >>)
                        \o (IF templatesOK THEN <<>>
                            ELSE << <<"fatal", "structural">> >>)
                        \o (IF go THEN << <<"global-data-end", 0>> >> ELSE <<>>)
          /\ patterns' = IF go THEN <<>> ELSE patterns
          /\ pstate' = IF go THEN NoNodes ELSE pstate
          /\ pcode' = IF go THEN NoFiles ELSE pcode
          /\ patternData' = IF go THEN NoPatternData ELSE patternData
          /\ visited' = {}
          /\ cacheBuster' = IF go THEN setCacheBust(passes) ELSE cacheBuster
          /\ pc' = next
  /\ lastCall' = "none"
  /\ UNCHANGED <<config, isBusy, nListeners, kind, cleanPublic, fs0,
                 graphFile, loopv, modified, passes, inFlight, thrown, rerun>>

\* The steps of buildPatterns before Phase 1 that nothing guards: loading
\* the graph, checking its version, emptying the output directory, merging
\* the list items.
PrePhase1Steps == {"graph-load", "version-check", "clear", "list-items"}

\* An entry point that clears the flag when buildPatterns throws.
FlagClearedOnThrow == FALSE

\* build and patternsonly call buildPatterns outside any try, after
\* patternlab.isBusy = true: a throw leaves the flag as it is.
FlagAfterThrow == isBusy

\* One of the unguarded steps of buildPatterns throws: what comes before it
\* has run, the exception leaves buildPatterns and the entry point that
\* called it, no promise is returned.
BootstrapThrow ==
  /\ pc = "build_start"
  /\ \E step \in PrePhase1Steps, dataOK \in BOOLEAN :
       LET g0 == loadPatternGraph(cleanPublic)
           graphNeedsUpgrade == ~checkVersion(g0)
           inc == IncrementalBuildsEnabled(cleanPublic, graphNeedsUpgrade)
           loaded == step # "graph-load"
           checked == step \in {"clear", "list-items"}
           late == step = "list-items"
       IN /\ (dataOK \/ late)
          /\ graph' = IF ~loaded THEN graph
                      ELSE IF checked /\ graphNeedsUpgrade
                             THEN upgradeVersion(g0) ELSE g0
          /\ incremental' = IF checked THEN inc ELSE incremental
          /\ fs' = IF late /\ ~inc THEN NoFiles ELSE fs
          /\ data' = IF late THEN LoadedData(dataOK) \cup {"link"} ELSE data
          /\ cacheBuster' = IF late THEN setCacheBust(passes) ELSE cacheBuster
          /\ patterns' = IF late THEN <<>> ELSE patterns
          /\ pstate' = IF late THEN NoNodes ELSE pstate
          /\ pcode' = IF late THEN NoFiles ELSE pcode
          /\ patternData' = IF late THEN NoPatternData ELSE patternData
          /\ log' = log \o (IF late /\ ~inc THEN << <<"clear", 0>> >> ELSE <<>>)
                        \o (IF late /\ ~dataOK
                              THEN << <<"data-error", 0>> >> ELSE <<>>)
                        \o << <<"throw", step>> >>
  /\ isBusy' = FlagAfterThrow
  /\ inFlight' = inFlight - 1
  /\ pc' = "threw"
  /\ lastCall' = "none"
  /\ UNCHANGED <<config, nListeners, kind, cleanPublic, fs0, graphFile,
                 visited, loopv, modified, passes, thrown, rerun>>

\* processAllPatternsIterative starts the asynchronous walk and
\* buildPatterns returns its promise.
StartWalk ==
  /\ pc = "global_data_end"
  /\ pc' = "walk"
  /\ lastCall' = "none"
  /\ UNCHANGED <<config, datav, isBusy, nListeners, passv, graphv, patv,
                 loopv, outv, modified, log, passes, inFlight, thrown, rerun>>

\* A walk callback that goes on with the file whatever dive reported.
IgnoresError(err) == FALSE

\* if (err) { console.log(...); return; } in the callback of either walk
SkipsOnError(err) == err

\* The walk reports file p, with an error or without: the callback logs
\* the error and returns, or load_pattern_iterative creates the Pattern
\* and registers it with the collection and the graph.
LoadPattern(p) ==
  /\ pc = "walk"
  /\ p \notin visited
  /\ visited' = visited \cup {p}
  /\ IF SkipsOnError(p \in diveErrors)
       THEN /\ log' = Append(log, <<"dive-error", p>>)
            /\ UNCHANGED <<patterns, graph, pstate>>
       ELSE /\ patterns' = Append(patterns, p)
            /\ graph' = GraphAdd(graph, p)
            /\ pstate' = [pstate EXCEPT ![p] = GraphAdd(graph, p).node[p]]
            /\ log' = Append(log, <<"load", p>>)
  /\ lastCall' = "none"
  /\ UNCHANGED <<config, datav, isBusy, nListeners, pc, passv, graphFile,
                 pcode, loopv, outv, modified, passes, inFlight, thrown, rerun>>

\* A completion signal that does not wait for the walk.
WalkResolvesEarly == TRUE

\* The completion callback of the walk resolves promiseAllPatternFiles
\* once every file has been reported.
WalkComplete == visited = Pats

\* The walk signals completion: process_pattern_iterative is called for
\* every loaded pattern and the promises are awaited together.
WalkDone ==
  /\ pc = "walk"
  /\ WalkComplete
  /\ log' = log \o [i \in 1..Len(patterns) |-> <<"process", patterns[i]>>]
  /\ pc' = "process"
  /\ lastCall' = "none"
  /\ UNCHANGED <<config, datav, isBusy, nListeners, passv, graphv, patv,
                 loopv, outv, modified, passes, inFlight, thrown, rerun>>

\* A continuation that does not announce the end of Phase 1.
NoIterationEnd == <<>>

\* patternlab.events.emit('patternlab-pattern-iteration-end', patternlab)
IterationEndEmit == << <<"iteration-end", 0>> >>

\* Every process step has completed: patternlab-pattern-iteration-end.
ProcessDone ==
  /\ pc = "process"
  /\ log' = log \o IterationEndEmit
  /\ pc' = "iteration_end"
  /\ lastCall' = "none"
  /\ UNCHANGED <<config, datav, isBusy, nListeners, passv, graphv, patv,
                 loopv, outv, modified, passes, inFlight, thrown, rerun>>

\* A full branch that marks nothing.
MarkNone(st, loaded) == st

\* The full branch marks every pattern of the collection.
MarkAll(st, loaded) ==
  [p \in Pats |-> IF p \in loaded THEN NEEDS_REBUILD ELSE st[p]]

\* A render set that takes the compile order backwards.
ReverseOrder(inc) ==
  LET o == IF inc THEN compileOrder(Range(patterns)) ELSE patterns
  IN [i \in 1..Len(o) |-> o[Len(o) + 1 - i]]

\* A render set that ignores the compile order.
DiscoveryOrder(inc) == patterns

\* patternsToBuild: the compile order of the graph when the build is
\* incremental, the collection as discovered otherwise.
RenderSet(inc) == IF inc THEN compileOrder(Range(patterns)) ELSE patterns

\* The compile states when the render loop starts.
RenderStates(inc) ==
  IF inc THEN mark_modified_patterns(pstate, Range(patterns))
         ELSE MarkAll(pstate, Range(patterns))

\* processAllPatternsRecursive: diveSync reports the files in directory
\* order; the callback logs an error and returns, or calls
\* process_pattern_recursive for the file.
processAllPatternsRecursive ==
  [i \in 1..NPat |-> IF SkipsOnError(i \in diveSyncErrors)
                       THEN <<"diveSync-error", i>>
                       ELSE <<"recursive", i>>]

\* From pattern-iteration-end to the render loop: Phase 2 over the files in
\* directory order, the user head and foot (metaOK: both can be read; the
\* process exits otherwise), the state cascade, the head fragment merged
\* into the global data, then the render set.
Phase2 ==
  /\ pc = "iteration_end"
  /\ \E metaOK \in BOOLEAN :
       LET next == IF metaOK THEN "render" ELSE process_exit(1, "render")
           go == next = "render"
           m == Ascending(modified \cap Range(patterns))
       IN /\ log' = log \o processAllPatternsRecursive
                        \o (IF metaOK THEN <<>> ELSE << <<"fatal", "meta">> >>)
                        \o (IF go /\ incremental
                              THEN [i \in 1..Len(m) |-> <<"modified", m[i]>>]
                              ELSE <<>>)
          /\ data' = IF go THEN data \cup {"patternLabHead"} ELSE data
          /\ pstate' = IF go THEN RenderStates(incremental) ELSE pstate
          /\ toBuild' = IF go THEN RenderSet(incremental) ELSE toBuild
          /\ pc' = next
  /\ idx' = 1
  /\ lastCall' = "none"
  /\ UNCHANGED <<config, patternData, isBusy, nListeners, passv, graphv,
                 patterns, pcode, visited, outv, modified, passes, inFlight,
                 thrown, rerun>>

\* ------------------------------------------------------ renderSinglePattern
\* A gate that forgets the compile state.
GateWithoutState(p) == ~isPattern[p]

\* A gate that forgets the isPattern flag.
GateWithoutFlag(p) == pstate[p] = CLEAN

\* The gate at the top of renderSinglePattern: TRUE when it returns false.
RenderGate(p) == ~isPattern[p] \/ pstate[p] = CLEAN

\* An assignment that misses the Pattern object.
PatternStateNotSet(st, p, v) == st

\* pattern.compileState = v
SetPatternState(st, p, v) == [st EXCEPT ![p] = v]

\* An assignment that misses the graph node.
NodeNotSet(g, p, st) == g

\* patternlab.graph.node(pattern).compileState = st
SetCompileState(g, p, st) == [g EXCEPT !.node[p] = st]

InLoop == pc = "render" /\ idx <= Len(toBuild)

\* renderSinglePattern returns false.
RenderSkip ==
  /\ InLoop
  /\ RenderGate(toBuild[idx])
  /\ idx' = idx + 1
  /\ log' = Append(log, <<"skip", toBuild[idx]>>)
  /\ lastCall' = "none"
  /\ UNCHANGED <<config, datav, isBusy, nListeners, pc, passv, graphv, patv,
                 toBuild, outv, modified, passes, inFlight, thrown, rerun>>

\* renderSinglePattern up to the patternlab-pattern-before-data-merge emit.
RenderBegin ==
  /\ InLoop
  /\ ~RenderGate(toBuild[idx])
  /\ LET p == toBuild[idx]
     IN /\ graph' = SetCompileState(graph, p, BUILDING)
        /\ pstate' = SetPatternState(pstate, p, BUILDING)
        /\ log' = Append(log, <<"before-data-merge", p>>)
  /\ pc' = "bdm"
  /\ lastCall' = "none"
  /\ UNCHANGED <<config, datav, isBusy, nListeners, passv, graphFile,
                 patterns, pcode, visited, loopv, outv, modified, passes,
                 inFlight, thrown, rerun>>

\* Data merge, head, body, metadata and footer, up to the
\* patternlab-pattern-write-begin emit.
RenderMerge ==
  /\ pc = "bdm"
  /\ LET p == toBuild[idx]
     IN /\ pcode' = [pcode EXCEPT ![p] = PartialCode(p, cacheBuster)]
        /\ patternData' = [patternData EXCEPT
                             ![p] = [written |-> TRUE,
                                     extraOutput |-> ExtraOutputDump(p)]]
        /\ log' = Append(log, <<"write-begin", p>>)
  /\ pc' = "wbegin"
  /\ lastCall' = "none"
  /\ UNCHANGED <<config, data, isBusy, nListeners, passv, graphv, patterns,
                 pstate, visited, loopv, outv, modified, passes,
                 inFlight, thrown, rerun>>

\* The promise of buildPatterns settles.
Settle == inFlight' = inFlight - 1 /\ pc' = "settled"

\* The engine throws while rendering; the catch handler of buildPatterns
\* logs the error.
RenderThrow ==
  /\ pc = "bdm"
  /\ log' = Append(log, <<"error", toBuild[idx]>>)
  /\ thrown' = TRUE
  /\ Settle
  /\ lastCall' = "none"
  /\ UNCHANGED <<config, datav, isBusy, nListeners, passv, graphv, patv,
                 loopv, outv, modified, passes, rerun>>

\* A render that announces the end of the write before writing.
EndThenWrite(p) == << <<"write-end", p>>, <<"write", p>> >>

\* writePatternFiles(headHTML, pattern, footerHTML), which writes every
\* file synchronously, then the patternlab-pattern-write-end emit.
WriteThenEnd(p) == << <<"write", p>>, <<"write-end", p>> >>

\* writePatternFiles, then the patternlab-pattern-write-end emit.
RenderWrite ==
  /\ pc = "wbegin"
  /\ LET p == toBuild[idx]
     IN /\ fs' = [fs EXCEPT ![p] = writePatternFiles(HeadHTML(cacheBuster), p,
                                     pcode[p], FooterHTML(p, cacheBuster))]
        /\ log' = log \o WriteThenEnd(p)
  /\ pc' = "wend"
  /\ lastCall' = "none"
  /\ UNCHANGED <<config, datav, isBusy, nListeners, passv, graphv, patv,
                 loopv, cacheBuster, modified, passes, inFlight,
                 thrown, rerun>>

\* A render that leaves the pattern marked for rebuild.
StillNeedsRebuild == NEEDS_REBUILD

\* The compile state a completed render leaves.
RenderedState == CLEAN

\* renderSinglePattern returns true.
RenderEnd ==
  /\ pc = "wend"
  /\ LET p == toBuild[idx]
     IN /\ graph' = SetCompileState(graph, p, RenderedState)
        /\ pstate' = SetPatternState(pstate, p, RenderedState)
        /\ log' = Append(log, <<"built", p>>)
  /\ idx' = idx + 1
  /\ pc' = "render"
  /\ lastCall' = "none"
  /\ UNCHANGED <<config, datav, isBusy, nListeners, passv, graphFile,
                 patterns, pcode, visited, toBuild, outv, modified, passes,
                 inFlight, thrown, rerun>>

\* A continuation that does not wait for the loop.
LoopNotAwaited == TRUE

\* patternsToBuild.forEach(...) has returned.
LoopDone == idx > Len(toBuild)

\* After the loop: the graph is persisted, then the graph and the patterns
\* are exported (exportOK: neither export throws; the catch handler of
\* buildPatterns logs the error otherwise), and the promise resolves.
StoreGraph ==
  /\ pc = "render"
  /\ LoopDone
  /\ graphFile' = storeToFile(graph)
  /\ modified' = {}
  /\ \E exportOK \in BOOLEAN :
       log' = log \o << <<"store", 0>> >>
                  \o (IF exportOK THEN <<>> ELSE << <<"export-error", 0>> >>)
  /\ Settle
  /\ lastCall' = "none"
  /\ UNCHANGED <<config, datav, isBusy, nListeners, passv, graph, patv,
                 loopv, outv, passes, thrown, rerun>>

\* The flag is cleared only after the callback has returned.
FlagLeftSet == isBusy

\* patternlab.isBusy = false, the statement before callback().
FlagAtCallback == FALSE

\* A continuation that calls back twice.
CallbackTwice == << <<"callback", 0>>, <<"callback", 0>> >>

\* callback()
InvokeCallback == << <<"callback", 0>> >>

\* The continuation build and patternsonly chain on buildPatterns: build
\* also builds the front end, copies assets and registers the two change
\* listeners; both clear the flag and invoke the callback.
BuildThen ==
  /\ pc = "settled"
  /\ nListeners' = IF kind = "patternsonly" THEN nListeners ELSE nListeners + 1
  /\ isBusy' = FlagAtCallback
  /\ log' = log \o InvokeCallback
  /\ pc' = "callback"
  /\ lastCall' = "none"
  /\ UNCHANGED <<config, datav, passv, graphv, patv, loopv, outv, modified,
                 passes, inFlight, thrown, rerun>>

\* The promise of build or patternsonly rejects.  The locals of the pass
\* are gone, and so is what the next pass replaces before reading it: the
\* pattern collection and the output fields of its patterns.
Reject ==
  /\ pc' = "rejected"
  /\ log' = Append(log, <<"rejected", 0>>)
  /\ fs0' = fs
  /\ toBuild' = <<>>
  /\ idx' = 1
  /\ visited' = {}
  /\ patterns' = <<>>
  /\ pcode' = NoFiles
  /\ patternData' = NoPatternData
  /\ lastCall' = "none"
  /\ UNCHANGED <<config, data, isBusy, nListeners, kind, cleanPublic,
                 incremental, graphv, pstate, outv, modified, passes,
                 inFlight, thrown, rerun>>

\* The front-end build or the asset copy of build throws: nothing catches
\* it, the rest of the continuation does not run.
ThenThrow ==
  /\ pc = "settled"
  /\ kind # "patternsonly"
  /\ Reject

\* The callback throws.
CallbackThrow ==
  /\ pc = "callback"
  /\ Reject

\* The callback returns and the promise of build settles.  The locals of
\* the pass are gone, and so is what the next pass replaces before reading
\* it: the pattern collection and the output fields of its patterns.
CallbackReturn ==
  /\ pc = "callback"
  /\ pc' = "idle"
  /\ kind' = "build"
  /\ incremental' = FALSE
  /\ fs0' = fs
  /\ toBuild' = <<>>
  /\ idx' = 1
  /\ visited' = {}
  /\ patterns' = <<>>
  /\ pcode' = NoFiles
  /\ patternData' = NoPatternData
  /\ rerun' = FALSE
  /\ log' = <<>>
  /\ lastCall' = "none"
  /\ UNCHANGED <<config, data, isBusy, nListeners, cleanPublic, graphv,
                 pstate, outv, modified, passes, inFlight, thrown>>

Next ==
  \/ BuildCall
  \/ ChangeEvent
  \/ \E p \in Pats : ModifySource(p)
  \/ Bootstrap
  \/ BootstrapThrow
  \/ StartWalk
  \/ \E p \in Pats : LoadPattern(p)
  \/ WalkDone
  \/ ProcessDone
  \/ Phase2
  \/ RenderSkip
  \/ RenderBegin
  \/ RenderMerge
  \/ RenderThrow
  \/ RenderWrite
  \/ RenderEnd
  \/ StoreGraph
  \/ BuildThen
  \/ ThenThrow
  \/ CallbackThrow
  \/ CallbackReturn

Spec == Init /\ [][Next]_vars

\* What the event loop does on its own once a call is accepted: every step
\* of a pass, up to the return of the callback.
PassStep ==
  \/ Bootstrap
  \/ BootstrapThrow
  \/ StartWalk
  \/ \E p \in Pats : LoadPattern(p)
  \/ WalkDone
  \/ ProcessDone
  \/ Phase2
  \/ RenderSkip
  \/ RenderBegin
  \/ RenderMerge
  \/ RenderThrow
  \/ RenderWrite
  \/ RenderEnd
  \/ StoreGraph
  \/ BuildThen
  \/ ThenThrow
  \/ CallbackThrow
  \/ CallbackReturn

\* The program driven through its entry points alone.
BuildNext ==
  \/ BuildCall
  \/ PassStep

\* The program under a scheduler that runs every synchronous statement to
\* its end and every callback that is due: no step of a pass waits on
\* anything but the event loop.
FairSpec == Init /\ [][BuildNext]_vars /\ WF_vars(PassStep)
\* ------------------------------------------------- the render loop alone
\* renderSinglePattern applied along an arbitrary render set: any sequence
\* of patterns, repeats included, in any mix of compile states and
\* isPattern flags.
RenderInit ==
  /\ cacheBust \in BOOLEAN
  /\ isPattern \in [Pats -> BOOLEAN]
  /\ configFile = [outputFileSuffixes |-> NoSuffixes, patternlabFiles |-> "object"]
  /\ outputFileSuffixes = checkConfiguration(NoSuffixes)
  /\ patternlabFiles = "object"
  /\ extraOutput = [p \in Pats |-> PlainExtraOutput]
  /\ allMarkdown = [p \in Pats |-> PlainMarkdown]
  /\ cleanOutputHtml \in BOOLEAN
  /\ addOutputFiles \in BOOLEAN
  /\ diveErrors = {}
  /\ diveSyncErrors = {}
  /\ data = GlobalDataKeys \cup {"link", "patternLabHead"}
  /\ patternData = NoPatternData
  /\ isBusy = TRUE
  /\ nListeners = 0
  /\ pc = "render"
  /\ kind = "build"
  /\ cleanPublic = FALSE
  /\ incremental = FALSE
  /\ pstate \in [Pats -> {CLEAN, NEEDS_REBUILD}]
  /\ graph = [loaded |-> TRUE, version |-> CURRENT_VERSION, node |-> pstate]
  /\ graphFile = [exists |-> FALSE, version |-> CURRENT_VERSION, node |-> NoNodes]
  /\ patterns = Ascending(Pats)
  /\ pcode = NoFiles
  /\ visited = Pats
  /\ toBuild \in UNION {[1..n -> Pats] : n \in 0..MaxRenderLen}
  /\ idx = 1
  /\ cacheBuster = setCacheBust(1)
  /\ fs = NoFiles
  /\ fs0 = NoFiles
  /\ modified = {}
  /\ log = <<>>
  /\ lastCall = "none"
  /\ passes = 1
  /\ inFlight = 1
  /\ thrown = FALSE
  /\ rerun = FALSE

RenderNext ==
  \/ RenderSkip
  \/ RenderBegin
  \/ RenderMerge
  \/ RenderThrow
  \/ RenderWrite
  \/ RenderEnd

RenderSpec == RenderInit /\ [][RenderNext]_vars

\* ------------------------------------------- one render, any front matter
\* renderSinglePattern on the first pattern, listed twice, carrying every
\* pair of extraOutput and markdown data of ExtraOutputs and Markdowns.
MetadataInit ==
  /\ cacheBust \in BOOLEAN
  /\ isPattern = [p \in Pats |-> TRUE]
  /\ configFile = [outputFileSuffixes |-> NoSuffixes, patternlabFiles |-> "object"]
  /\ outputFileSuffixes = checkConfiguration(NoSuffixes)
  /\ patternlabFiles = "object"
  /\ \E eo \in ExtraOutputs :
       extraOutput = [p \in Pats |-> IF p = 1 THEN eo ELSE PlainExtraOutput]
  /\ \E md \in Markdowns :
       allMarkdown = [p \in Pats |-> IF p = 1 THEN md ELSE PlainMarkdown]
  /\ cleanOutputHtml = FALSE
  /\ addOutputFiles = FALSE
  /\ diveErrors = {}
  /\ diveSyncErrors = {}
  /\ data = GlobalDataKeys \cup {"link", "patternLabHead"}
  /\ patternData = NoPatternData
  /\ isBusy = TRUE
  /\ nListeners = 0
  /\ pc = "render"
  /\ kind = "build"
  /\ cleanPublic = FALSE
  /\ incremental = FALSE
  /\ pstate = [p \in Pats |-> NEEDS_REBUILD]
  /\ graph = [loaded |-> TRUE, version |-> CURRENT_VERSION, node |-> pstate]
  /\ graphFile = [exists |-> FALSE, version |-> CURRENT_VERSION, node |-> NoNodes]
  /\ patterns = Ascending(Pats)
  /\ pcode = NoFiles
  /\ visited = Pats
  /\ toBuild = <<1, 1>>
  /\ idx = 1
  /\ cacheBuster = setCacheBust(1)
  /\ fs = NoFiles
  /\ fs0 = NoFiles
  /\ modified = {}
  /\ log = <<>>
  /\ lastCall = "none"
  /\ passes = 1
  /\ inFlight = 1
  /\ thrown = FALSE
  /\ rerun = FALSE

MetadataSpec == MetadataInit /\ [][RenderNext]_vars

\* ------------------------------------------------- the constructor alone
\* patternlab_engine(config) on every configuration of ConfigFiles, at the
\* call of checkConfiguration.
ConfigInit ==
  /\ cacheBust \in BOOLEAN
  /\ isPattern = [p \in Pats |-> TRUE]
  /\ configFile \in ConfigFiles
  /\ outputFileSuffixes = configFile.outputFileSuffixes
  /\ patternlabFiles = configFile.patternlabFiles
  /\ extraOutput = [p \in Pats |-> PlainExtraOutput]
  /\ allMarkdown = [p \in Pats |-> PlainMarkdown]
  /\ cleanOutputHtml = FALSE
  /\ addOutputFiles = FALSE
  /\ diveErrors = {}
  /\ diveSyncErrors = {}
  /\ data = {}
  /\ patternData = NoPatternData
  /\ isBusy = FALSE
  /\ nListeners = 0
  /\ pc = "construct"
  /\ kind = "build"
  /\ cleanPublic = FALSE
  /\ incremental = FALSE
  /\ graph = [loaded |-> FALSE, version |-> CURRENT_VERSION, node |-> NoNodes]
  /\ graphFile = [exists |-> FALSE, version |-> CURRENT_VERSION, node |-> NoNodes]
  /\ fs = NoFiles
  /\ fs0 = NoFiles
  /\ patterns = <<>>
  /\ pstate = NoNodes
  /\ pcode = NoFiles
  /\ visited = {}
  /\ toBuild = <<>>
  /\ idx = 1
  /\ cacheBuster = 0
  /\ modified = {}
  /\ log = <<>>
  /\ lastCall = "none"
  /\ passes = 0
  /\ inFlight = 0
  /\ thrown = FALSE
  /\ rerun = FALSE

\* checkConfiguration(patternlab): default the suffixes, warn about a
\* missing outputFileSuffixes and about a string-typed patternlabFiles.
CheckConfiguration ==
  /\ pc = "construct"
  /\ outputFileSuffixes' = checkConfiguration(outputFileSuffixes)
  /\ log' = (IF outputFileSuffixes.present THEN <<>>
             ELSE << <<"warning", "outputFileSuffixes">> >>)
            \o (IF patternlabFiles = "string"
                  THEN << <<"warning", "patternlabFiles">> >> ELSE <<>>)
  /\ pc' = "idle"
  /\ UNCHANGED <<cacheBust, isPattern, configFile, patternlabFiles,
                 extraOutput, allMarkdown, cleanOutputHtml, addOutputFiles,
                 diveErrors, diveSyncErrors, datav, isBusy, nListeners, passv,
                 graphv, patv, loopv, outv, modified, lastCall, passes,
                 inFlight, thrown, rerun>>

ConfigNext == CheckConfiguration

ConfigSpec == ConfigInit /\ [][ConfigNext]_vars

\* ------------------------------------------- change events after builds
\* The process at rest after 1..MaxListeners completed builds, each of which
\* registered its pair of listeners: the graph is persisted, every pattern
\* is built, some sources have been edited since.  Passes and time are
\* counted from here.
ListenerInit ==
  /\ cacheBust = TRUE
  /\ isPattern = [p \in Pats |-> TRUE]
  /\ configFile = [outputFileSuffixes |-> NoSuffixes, patternlabFiles |-> "object"]
  /\ outputFileSuffixes = checkConfiguration(NoSuffixes)
  /\ patternlabFiles = "object"
  /\ extraOutput = [p \in Pats |-> PlainExtraOutput]
  /\ allMarkdown = [p \in Pats |-> PlainMarkdown]
  /\ cleanOutputHtml = FALSE
  /\ addOutputFiles = FALSE
  /\ diveErrors = {}
  /\ diveSyncErrors = {}
  /\ data = GlobalDataKeys \cup {"link", "patternLabHead"}
  /\ patternData = NoPatternData
  /\ isBusy = FlagAtCallback
  /\ nListeners \in 1..MaxListeners
  /\ pc = "idle"
  /\ kind = "build"
  /\ cleanPublic \in BOOLEAN
  /\ incremental = FALSE
  /\ graph = [loaded |-> TRUE, version |-> CURRENT_VERSION,
              node |-> [p \in Pats |-> RenderedState]]
  /\ graphFile = storeToFile(graph)
  /\ patterns = <<>>
  /\ pstate = [p \in Pats |-> RenderedState]
  /\ pcode = NoFiles
  /\ visited = {}
  /\ toBuild = <<>>
  /\ idx = 1
  /\ cacheBuster = setCacheBust(0)
  /\ fs = [p \in Pats |-> writePatternFiles(HeadHTML(cacheBuster), p,
                             PartialCode(p, cacheBuster),
                             FooterHTML(p, cacheBuster))]
  /\ fs0 = fs
  /\ modified \in SUBSET Pats
  /\ log = <<>>
  /\ lastCall = "none"
  /\ passes = 0
  /\ inFlight = 0
  /\ thrown = FALSE
  /\ rerun = FALSE

\* Watchers raise change events; nothing else calls the entry points.
ListenerNext ==
  \/ ChangeEvent
  \/ PassStep

ListenerSpec == ListenerInit /\ [][ListenerNext]_vars

\* ------------------------------------------ one pass over a faulty tree
\* The first pass of a process, accepted and about to run buildPatterns, on
\* a source tree in which either walk may report any of the files with an
\* error.
WalkInit ==
  /\ cacheBust = TRUE
  /\ isPattern = [p \in Pats |-> TRUE]
  /\ configFile = [outputFileSuffixes |-> NoSuffixes, patternlabFiles |-> "object"]
  /\ outputFileSuffixes = checkConfiguration(NoSuffixes)
  /\ patternlabFiles = "object"
  /\ extraOutput = [p \in Pats |-> PlainExtraOutput]
  /\ allMarkdown = [p \in Pats |-> PlainMarkdown]
  /\ cleanOutputHtml = FALSE
  /\ addOutputFiles = FALSE
  /\ diveErrors \in SUBSET Pats
  /\ diveSyncErrors \in SUBSET Pats
  /\ data = {}
  /\ patternData = NoPatternData
  /\ isBusy = BusyAfterAccept
  /\ nListeners = 0
  /\ pc = "build_start"
  /\ kind = "build"
  /\ cleanPublic \in BOOLEAN
  /\ incremental = FALSE
  /\ graph = [loaded |-> FALSE, version |-> CURRENT_VERSION, node |-> NoNodes]
  /\ \/ /\ graphFile = [exists |-> FALSE, version |-> CURRENT_VERSION, node |-> NoNodes]
        /\ fs = NoFiles
     \/ /\ graphFile = [exists |-> TRUE, version |-> OLD_VERSION,
                        node |-> [p \in Pats |-> CLEAN]]
        /\ fs = [p \in Pats |-> LegacyFiles(p)]
  /\ fs0 = fs
  /\ patterns = <<>>
  /\ pstate = NoNodes
  /\ pcode = NoFiles
  /\ visited = {}
  /\ toBuild = <<>>
  /\ idx = 1
  /\ cacheBuster = 0
  /\ modified = {}
  /\ log = << <<"build-start", 0>> >>
  /\ lastCall = "accepted"
  /\ passes = 1
  /\ inFlight = 1
  /\ thrown = FALSE
  /\ rerun = FALSE

\* buildPatterns from its first statement to the settling of its promise.
WalkNext ==
  \/ Bootstrap
  \/ StartWalk
  \/ \E p \in Pats : LoadPattern(p)
  \/ WalkDone
  \/ ProcessDone
  \/ Phase2
  \/ RenderBegin
  \/ RenderMerge
  \/ RenderThrow
  \/ RenderWrite
  \/ RenderEnd
  \/ StoreGraph

\* The event loop runs every callback that is due, and both walks report
\* every file.
WalkSpec == WalkInit /\ [][WalkNext]_vars /\ WF_vars(WalkNext)

\* ------------------------------------------------------------------ claims
\* Positions of the log holding entry e.
At(e) == {i \in DOMAIN log : log[i] = e}
Logged(e) == At(e) # {}

\* Positions of the log holding an entry of kind k.
Entries(k) == {i \in DOMAIN log : log[i][1] = k}

\* C1: a call of an entry point made while isBusy is true is dropped and
\* changes nothing: the flag, the pass in flight, the graph, the patterns,
\* the output files and the log of emitted events stay as they were, and a
\* pass only ever starts in the step of a call made while the flag is clear
\* (nothing is queued).
C1_BusyCallHasNoEffect ==
  [][ /\ (isBusy /\ lastCall' # "none") =>
           /\ lastCall' = "dropped"
           /\ UNCHANGED <<isBusy, nListeners, pc, passv, graphv, patv, loopv,
                          outv, modified, log, passes, inFlight, thrown, rerun>>
      /\ (passes' # passes) => (~isBusy /\ lastCall' = "accepted") ]_vars

\* A call was dropped while the walk of a pass was under way.
C1_Witness ==
  isBusy /\ lastCall = "dropped" /\ pc = "walk" /\ visited # {}

\* C2: at most one build pass is in flight.
C2_AtMostOnePassInFlight == inFlight <= 1

\* A second pass, started by a change event or a call after a completed
\* build, is in flight and a further request has just been dropped.
C2_Witness ==
  inFlight = 1 /\ passes = 2 /\ nListeners > 0 /\ lastCall = "dropped"

\* C3: renderSinglePattern on a pattern that is not a pattern, or is CLEAN,
\* returns false and changes neither compile state, nor the pattern's
\* output field, nor the files, and emits no event.
C3_GateIsNoOp ==
  [][ (/\ pc = "render"
       /\ idx <= Len(toBuild)
       /\ (~isPattern[toBuild[idx]] \/ pstate[toBuild[idx]] = CLEAN)) =>
        /\ log' = Append(log, <<"skip", toBuild[idx]>>)
        /\ pc' = "render"
        /\ UNCHANGED <<pstate, graph, graphFile, pcode, fs, cacheBuster>> ]_vars

\* The loop has skipped one pattern for its flag and one for being CLEAN.
C3_Witness ==
  \E a, b \in Pats :
    /\ Logged(<<"skip", a>>) /\ ~isPattern[a] /\ pstate[a] = NEEDS_REBUILD
    /\ Logged(<<"skip", b>>) /\ isPattern[b] /\ pstate[b] = CLEAN

\* C4: in one pass the output files of a pattern are written at most once,
\* whatever the render set lists.
C4_RenderedAtMostOnce ==
  \A p \in Pats : Cardinality(At(<<"write", p>>)) <= 1

\* A pattern listed twice was rendered the first time and skipped the second.
C4_Witness ==
  \E p \in Pats : \E i, j \in DOMAIN log :
    i < j /\ log[i] = <<"write", p>> /\ log[j] = <<"skip", p>>
\* Patterns whose Pattern object or graph node is BUILDING.
Building == {p \in Pats : pstate[p] = BUILDING \/ graph.node[p] = BUILDING}

\* States in which a lifecycle listener or the completion callback runs, or
\* the promise of build has settled.
Observed == pc \in EmitPoints \cup {"callback", "idle"}

\* C5 as stated: no pattern and no graph node is BUILDING when a listener or
\* the callback is invoked or the promise settles.
C5_Original == Observed => Building = {}

\* C5, amended: BUILDING is seen only on the pattern whose
\* renderSinglePattern call is running or has thrown.  The listeners of the
\* three per-pattern events see exactly that pattern BUILDING, on the
\* Pattern and on its graph node; the listeners of global-data-end and
\* pattern-iteration-end see none; the callback and the settled promise see
\* none unless a render threw in the pass, and then only the one pattern
\* whose render threw; at most one pattern is BUILDING at any time.
C5_BuildingOnlyWhileRendering ==
  /\ Cardinality(Building) <= 1
  /\ pc \in {"bdm", "wbegin", "wend"} =>
       /\ Building = {toBuild[idx]}
       /\ pstate[toBuild[idx]] = BUILDING
       /\ graph.node[toBuild[idx]] = BUILDING
  /\ pc \in {"global_data_end", "walk", "process", "iteration_end"} =>
       Building = {}
  /\ (pc \in {"callback", "idle"} /\ ~thrown) => Building = {}
  /\ (pc \in {"callback", "idle"} /\ thrown /\ passes > 0) =>
       \E p \in Pats : Building = {p} /\ pstate[p] = BUILDING

\* The write-end listeners run for the second pattern of a render set, with
\* the first one already CLEAN.
C5_Witness ==
  /\ pc = "wend"
  /\ idx = 2
  /\ Building = {toBuild[2]}
  /\ pstate[toBuild[1]] = CLEAN

\* Renderable patterns of the render set that are not CLEAN.
NotClean == {p \in Range(toBuild) : isPattern[p] /\ pstate[p] # CLEAN}

\* C6: when the callback reports the build complete, every renderable
\* pattern that entered the render loop needing a rebuild is CLEAN.  (A
\* pattern enters the loop CLEAN or NEEDS_REBUILD and only a render changes
\* that, so one that is not CLEAN at the end entered needing a rebuild.)
C6_RebuiltOrFailed == pc = "callback" => NotClean = {}

\* C7: the output directory is cleared exactly when deletePatternDir is true
\* or the persisted graph has another version, and the clearing precedes
\* every load of Phase 1 and every write of the pass.  (The persisted graph
\* is the one the pass loaded until the pass stores its own.)
C7_ClearedIffNotIncremental ==
  pc \in {"global_data_end", "walk", "process", "iteration_end", "render",
          "bdm", "wbegin", "wend"} =>
    /\ Logged(<<"clear", 0>>) <=>
         (cleanPublic \/ (graphFile.exists /\ graphFile.version # CURRENT_VERSION))
    /\ \A i \in At(<<"clear", 0>>) : \A j \in DOMAIN log :
         log[j][1] \in {"load", "write"} => i < j
    /\ (pc = "global_data_end" /\ Logged(<<"clear", 0>>)) => fs = NoFiles

\* A pass that was not asked to delete the directory cleared it because of
\* the graph version, and has written a pattern since.
C7_Witness ==
  /\ ~cleanPublic
  /\ Logged(<<"clear", 0>>)
  /\ \E p \in Pats : Logged(<<"write", p>>)
  /\ \E p \in Pats : fs[p] = <<>>

\* The pass loaded a persisted graph of another version.
UpgradePass ==
  /\ pc \in {"global_data_end", "walk", "process", "iteration_end", "render",
             "bdm", "wbegin", "wend"}
  /\ ~cleanPublic
  /\ graphFile.exists
  /\ graphFile.version # CURRENT_VERSION

\* C8: a pass that loads a persisted graph of another version clears the
\* output directory, upgrades the version of the graph in memory, and
\* enters the render loop with every discovered pattern NEEDS_REBUILD and
\* in the render set, whatever state the graph recorded for it and whether
\* or not its source was modified.
C8_VersionMismatchRebuildsAll ==
  UpgradePass =>
    /\ Logged(<<"clear", 0>>)
    /\ graph.version = CURRENT_VERSION
    /\ ~incremental
    /\ pc = "global_data_end" => fs = NoFiles
    /\ (pc = "render" /\ idx = 1) =>
         /\ Range(patterns) = Pats
         /\ \A p \in Pats : pstate[p] = NEEDS_REBUILD
         /\ toBuild = patterns

\* The render loop of such a pass starts; the graph recorded every pattern
\* CLEAN and only some sources were modified.
C8_Witness ==
  /\ UpgradePass
  /\ pc = "render"
  /\ idx = 1
  /\ \A p \in Pats : graphFile.node[p] = CLEAN
  /\ modified # {}
  /\ modified # Pats
\* Include edges A -> B of the source tree whose B the pass found modified.
ModifiedEdges ==
  {e \in Pats \X Pats : e[2] \in lineage[e[1]] /\ Logged(<<"modified", e[2]>>)}

\* The render loop of the pass ran to its end.
LoopCompleted ==
  \/ pc = "render" /\ idx > Len(toBuild)
  \/ pc \in {"settled", "callback"} /\ ~thrown

\* A's render, if it started, started after B's render had finished.
RenderedAfter(A, B) ==
  \A i \in At(<<"before-data-merge", A>>) :
    \E j \in At(<<"built", B>>) : j < i

Rendered == {p \in Pats : Logged(<<"before-data-merge", p>>)}

\* C10 as stated: a build run again after a completed build, with no source
\* change in between and nothing thrown, renders no pattern and ends with
\* the same output files.
C10_Original ==
  (rerun /\ pc = "callback" /\ ~thrown) => (Rendered = {} /\ fs = fs0)

\* C10, amended: a build run again with cleanPublic false after a completed
\* build, with no source change in between, is incremental, finds every
\* pattern CLEAN when the render loop reaches it, renders none, and leaves
\* every output file as it was; run again with cleanPublic true it clears
\* the directory and renders every pattern again.
C10_RerunIsIdempotentWhenIncremental ==
  /\ (rerun /\ ~cleanPublic) =>
       /\ Rendered = {}
       /\ fs = fs0
       /\ ~Logged(<<"clear", 0>>)
       /\ pc \in {"render", "settled", "callback"} =>
            /\ incremental
            /\ \A p \in Range(toBuild) : pstate[p] = CLEAN
            /\ \A i \in 1..(idx - 1) : Logged(<<"skip", toBuild[i]>>)
       /\ pc = "callback" => (~thrown /\ \A p \in Pats : Logged(<<"skip", p>>))
  /\ (rerun /\ cleanPublic /\ pc = "callback" /\ ~thrown) =>
       /\ Rendered = Pats
       /\ Logged(<<"clear", 0>>)

\* The second of two incremental builds has completed, over output files
\* the first one wrote.
C10_Witness ==
  /\ rerun
  /\ ~cleanPublic
  /\ pc = "callback"
  /\ \A p \in Pats : fs[p] # <<>> /\ fs[p] # LegacyFiles(p)
  /\ \A p \in Pats : Logged(<<"skip", p>>)

\* The pass found a structural template or a user head or foot unreadable.
FatalLogged == \E k \in {"structural", "meta"} : Logged(<<"fatal", k>>)

\* C11: a pass that cannot read a structural template or the user head or
\* foot ends the process with a non-zero status; in that pass no pattern
\* is rendered, no output file is written (every file is as it was when the
\* pass started, or was removed by the clearing of the directory) and the
\* graph is not persisted.
C11_FatalTemplateExits ==
  FatalLogged =>
    /\ pc = "exited_nonzero"
    /\ Rendered = {}
    /\ \A p \in Pats : ~Logged(<<"write", p>>) /\ fs[p] \in {<<>>, fs0[p]}
    /\ ~Logged(<<"store", 0>>)
    /\ ~Logged(<<"callback", 0>>)

\* The second pass of a process exited on the user head or foot, after both
\* phases, over the output files and the graph of the first pass.
C11_Witness ==
  /\ pc = "exited_nonzero"
  /\ Logged(<<"fatal", "meta">>)
  /\ Logged(<<"iteration-end", 0>>)
  /\ passes = 2
  /\ graphFile.exists
  /\ \A p \in Pats : fs[p] # <<>>

\* The global data file could not be loaded in this pass.
DataErrorLogged == Logged(<<"data-error", 0>>)

\* C12 as stated: a build whose global data file cannot be loaded completes
\* with patternlab.data equal to the empty structure.
C12_Original ==
  (DataErrorLogged /\ pc = "callback" /\ ~thrown) => data = {}

\* C12, amended: a failing load of the global data file does not end the
\* pass; patternlab.data then holds no key of the data file, only the keys
\* the pipeline itself adds to the empty structure (link before Phase 1,
\* patternLabHead before the render set is chosen), and a pass in which
\* nothing else fails completes with every pattern of the render set CLEAN.
C12_DataLoadDegrades ==
  DataErrorLogged =>
    /\ data \cap GlobalDataKeys = {}
    /\ ~FatalLogged => pc # "exited_nonzero"
    /\ pc \in {"global_data_end", "walk", "process", "iteration_end"} =>
         data = {"link"}
    /\ pc \in {"render", "bdm", "wbegin", "wend", "settled", "callback"} =>
         data = {"link", "patternLabHead"}
    /\ (pc = "callback" /\ ~thrown) => NotClean = {}

\* The second pass of a process completed without the global data, having
\* rendered every pattern.
C12_Witness ==
  /\ DataErrorLogged
  /\ pc = "callback"
  /\ ~thrown
  /\ passes = 2
  /\ Rendered = Pats
  /\ data = {"link", "patternLabHead"}

\* C13: a pass in which a step after discovery threw is reported to its
\* caller as failed: the continuation that clears the flag and invokes the
\* completion callback does not run for it.
C13_ThrowRejectsBuild == thrown => ~Logged(<<"callback", 0>>)

\* C14 as stated: whenever the promise of build or patternsonly rejects,
\* the flag is still set.
C14_Original == pc = "rejected" => isBusy

\* C14, amended: the promise rejects with the flag still set exactly when
\* the continuation threw before it cleared the flag (the front-end build
\* or the asset copy of build), and from then on every request is dropped
\* and no pass starts; when the completion callback throws, the promise
\* rejects with the flag already cleared.
C14_BusyLeftSetOnReject ==
  /\ [](pc = "rejected" => (isBusy <=> ~Logged(<<"callback", 0>>)))
  /\ [][ (pc = "rejected" /\ isBusy) =>
           /\ lastCall' = "dropped"
           /\ UNCHANGED <<isBusy, pc, passes, inFlight, log, graphv, outv>> ]_vars

\* A request arrived after the second build of a process rejected with the
\* flag set, and was dropped.
C14_Witness ==
  /\ pc = "rejected"
  /\ isBusy
  /\ nListeners > 0
  /\ passes = 2
  /\ lastCall = "dropped"

\* Points of a pass between its bootstrap and the persisting of the graph.
BeforeStore == {"global_data_end", "walk", "process", "iteration_end",
                "render", "bdm", "wbegin", "wend"}

\* C15: a pass is started by a change event only while the flag is clear
\* and a build has registered its listeners, with deletePatternDir false
\* for patternlab-pattern-change and true for patternlab-global-change; no
\* request is dropped while the flag is clear, and the flag is set as long
\* as buildPatterns is in flight, so an event raised then starts nothing.
\* A pass started by patternlab-pattern-change is incremental exactly when
\* the graph it loaded has the current version; one started by
\* patternlab-global-change clears the output directory and, when nothing
\* throws, renders every pattern.
C15_ChangeEventsRebuild ==
  /\ [][ (passes' # passes /\ kind' \in Triggers) =>
           /\ ~isBusy
           /\ nListeners > 0
           /\ cleanPublic' = (kind' = "global-change")
           /\ pc' = "build_start" ]_vars
  /\ [][ lastCall' = "dropped" => isBusy ]_vars
  /\ [](inFlight > 0 => isBusy)
  /\ []((kind = "pattern-change" /\ pc \in BeforeStore) =>
          (incremental <=>
             ~(graphFile.exists /\ graphFile.version # CURRENT_VERSION)))
  /\ []((kind = "global-change" /\ pc \in BeforeStore) =>
          (~incremental /\ Logged(<<"clear", 0>>)))
  /\ []((kind = "global-change" /\ pc = "callback" /\ ~thrown) =>
          Rendered = Pats)

\* A pass started by patternlab-pattern-change after a source was edited
\* completed incrementally: it rendered the edited pattern again and left
\* the other one alone.
C15_Witness ==
  /\ kind = "pattern-change"
  /\ pc = "callback"
  /\ incremental
  /\ ~thrown
  /\ Rendered # {}
  /\ Rendered # Pats

\* C16: checkConfiguration leaves an outputFileSuffixes object that has the
\* keys rendered, rawTemplate and markupOnly, in which every key the
\* configuration supplied keeps the supplied value and every other key has
\* its default; it warns exactly when the object was missing, and it leaves
\* paths.source.patternlabFiles as it was, a string included.
C16_SuffixDefaults ==
  [][ pc = "construct" =>
        LET user == configFile.outputFileSuffixes
            out == outputFileSuffixes'.obj
        IN /\ outputFileSuffixes'.present
           /\ {"rendered", "rawTemplate", "markupOnly"} \subseteq DOMAIN out
           /\ \A k \in DOMAIN out :
                IF user.present /\ k \in DOMAIN user.obj
                  THEN out[k] = user.obj[k]
                  ELSE \/ k = "rendered" /\ out[k] = ".rendered"
                       \/ k = "rawTemplate" /\ out[k] = ""
                       \/ k = "markupOnly" /\ out[k] = ".markup-only"
           /\ user.present => DOMAIN user.obj \subseteq DOMAIN out
           /\ <<"warning", "outputFileSuffixes">> \in Range(log') <=> ~user.present
           /\ patternlabFiles' = patternlabFiles
           /\ pc' = "idle" ]_vars

\* The configuration supplied rendered and a key of its own, no rawTemplate
\* and no markupOnly, and a string for patternlabFiles.
C16_Witness ==
  /\ pc = "idle"
  /\ configFile.patternlabFiles = "string"
  /\ patternlabFiles = "string"
  /\ configFile.outputFileSuffixes.present
  /\ DOMAIN configFile.outputFileSuffixes.obj = {"rendered", "custom"}
  /\ outputFileSuffixes.obj =
       [rendered |-> ".html", custom |-> ".htm", rawTemplate |-> "",
        markupOnly |-> ".markup-only"]

\* C17: the extraOutput object of the metadata of a rendered pattern has
\* the keys of the pattern's extraOutput and of its markdown data other
\* than title, state and markdown, each with the value the markdown data
\* gives it, or else the value extraOutput gives it; it has none of the
\* three keys.
C17_ExtraOutputDump ==
  \A p \in Pats :
    patternData[p].written =>
      LET eo == extraOutput[p]
          md == allMarkdown[p]
          out == patternData[p].extraOutput
      IN /\ DOMAIN out =
              (DOMAIN eo \cup DOMAIN md) \ {"title", "state", "markdown"}
         /\ \A k \in DOMAIN out :
              out[k] = IF k \in DOMAIN md THEN md[k] ELSE eo[k]
         /\ DOMAIN out \cap {"title", "state", "markdown"} = {}

\* A pattern whose front matter has all three keys, title in both objects,
\* was rendered and written.
C17_Witness ==
  /\ patternData[1].written
  /\ fs[1] # <<>>
  /\ DOMAIN extraOutput[1] = {"title", "links"}
  /\ DOMAIN allMarkdown[1] = {"title", "state", "markdown", "links"}
  /\ patternData[1].extraOutput = [links |-> "md"]

\* C18: a render moves the compile state of the Pattern and that of its
\* graph node to BUILDING in one step at its start and to CLEAN in one step
\* at its end, touching no other pattern; while the three per-pattern
\* events are emitted both are BUILDING, and when the call has returned
\* true both are CLEAN.
C18_StatesMoveTogether ==
  /\ [][ (pc = "render" /\ pc' = "bdm") =>
           /\ pstate' = [pstate EXCEPT ![toBuild[idx]] = "building"]
           /\ graph'.node = [graph.node EXCEPT ![toBuild[idx]] = "building"] ]_vars
  /\ [][ (pc = "wend" /\ pc' = "render") =>
           /\ pstate' = [pstate EXCEPT ![toBuild[idx]] = "clean"]
           /\ graph'.node = [graph.node EXCEPT ![toBuild[idx]] = "clean"]
           /\ log' = Append(log, <<"built", toBuild[idx]>>) ]_vars
  /\ [][ (pc \in {"bdm", "wbegin"}) => UNCHANGED <<pstate, graph>> ]_vars
  /\ [](pc \in {"bdm", "wbegin", "wend"} =>
          /\ pstate[toBuild[idx]] = "building"
          /\ graph.node[toBuild[idx]] = "building")
  /\ [](pc \in {"render", "bdm", "wbegin", "wend"} =>
          \A i \in 1..(idx - 1) :
            Logged(<<"built", toBuild[i]>>) =>
              pstate[toBuild[i]] = "clean" /\ graph.node[toBuild[i]] = "clean")

\* The loop of a full pass over a graph of an older release has rendered
\* every pattern: each is CLEAN on the Pattern and on its node.
C18_Witness ==
  /\ pc = "render"
  /\ idx > NPat
  /\ Logged(<<"clear", 0>>)
  /\ ~cleanPublic
  /\ \A p \in Pats :
       Logged(<<"built", p>>) /\ pstate[p] = CLEAN /\ graph.node[p] = CLEAN

\* Points of a pass from the start of the render loop to the callback.
FromRenderLoop == {"render", "bdm", "wbegin", "wend", "settled", "callback"}

\* Whenever A and a pattern B it includes have both started rendering in
\* the pass, B's render had finished when A's started.
IncludedFirst ==
  \A A \in Pats : \A B \in lineage[A] :
    (Logged(<<"before-data-merge", A>>) /\ Logged(<<"before-data-merge", B>>))
      => RenderedAfter(A, B)

\* C19 as stated: in every pass, incremental or full, an included pattern
\* is rendered before the pattern that includes it.
C19_Original == pc \in FromRenderLoop => IncludedFirst

\* C19, amended: renders happen one at a time in the order of the render
\* set; in an incremental pass that is the compile order of the graph, so
\* an included pattern is rendered before the pattern that includes it; in
\* a full pass it is the order in which the walk discovered the patterns.
C19_RenderOrder ==
  pc \in {"render", "bdm", "wbegin", "wend"} =>
    /\ incremental => IncludedFirst
    /\ ~incremental => toBuild = patterns
    /\ LET S == Entries("before-data-merge")
       IN \A i \in S : \A j \in S :
            i < j => \E m, n \in 1..idx :
                       m < n /\ toBuild[m] = log[i][2] /\ toBuild[n] = log[j][2]

\* An incremental pass is rendering the including pattern after the
\* included one, the walk having discovered them the other way round.
C19_Witness ==
  /\ incremental
  /\ pc = "wend"
  /\ idx = 2
  /\ toBuild[1] \in lineage[toBuild[2]]
  /\ patterns[1] = toBuild[2]
  /\ Logged(<<"built", toBuild[1]>>)

\* C20: in a pass every process step comes after the load step of every
\* file of the tree, and the pattern-iteration-end event and the steps of
\* Phase 2 come after the process step of every loaded pattern.
C20_PhaseBarrier ==
  LET L == Entries("load")
      P == Entries("process")
      E == Entries("iteration-end")
      R == Entries("recursive")
  IN /\ P # {} => \A p \in Pats : \E i \in L : log[i] = <<"load", p>>
     /\ \A i \in L : \A j \in P : i < j
     /\ E \cup R # {} =>
          /\ \A p \in Pats : \E j \in P : log[j] = <<"process", p>>
          /\ \A j \in L \cup P : \A k \in E \cup R : j < k
     /\ \A j \in E : \A k \in R : j < k
     /\ pc \in {"global_data_end", "walk"} => P \cup E \cup R = {}
     /\ pc = "process" => E \cup R = {}

\* Phase 2 of the second pass of a process has run, after a walk that
\* reported the files in descending order.
C20_Witness ==
  /\ passes = 2
  /\ pc = "render"
  /\ Entries("recursive") # {}
  /\ patterns[1] = NPat
  /\ \A p \in Pats : Logged(<<"process", p>>)

\* ------------------------------------------------------------------ C21
\* The per-pattern lifecycle events.
PatternEvents == {"before-data-merge", "write-begin", "write-end"}

\* C21: in a pass, patternlab-build-pattern-start is the first thing that
\* happens and is emitted once; patternlab-build-global-data-end and
\* patternlab-pattern-iteration-end are emitted at most once each, in that
\* order, and exactly once each by the time the render loop runs; every
\* per-pattern event comes after pattern-iteration-end.
C21_LifecycleOrder ==
  LET B == Entries("build-start")
      G == Entries("global-data-end")
      E == Entries("iteration-end")
      R == UNION {Entries(k) : k \in PatternEvents}
  IN /\ log # <<>> => B = {1}
     /\ Cardinality(G) <= 1
     /\ Cardinality(E) <= 1
     /\ E # {} => G # {}
     /\ \A g \in G : \A e \in E : 1 < g /\ g < e
     /\ R # {} => E # {}
     /\ \A e \in E : \A r \in R : e < r
     /\ pc \in FromRenderLoop => Cardinality(G) = 1 /\ Cardinality(E) = 1

\* A pass has emitted all three pass events and the three events of every
\* pattern.
C21_Witness ==
  /\ pc = "callback"
  /\ \A p \in Pats : \A k \in PatternEvents : Logged(<<k, p>>)

\* ------------------------------------------------------------------ C22
\* The steps of one render, in the order the code takes them.
RenderSteps == <<"before-data-merge", "write-begin", "write", "write-end",
                 "built">>

\* C22: in a pass every step of the render of a pattern is logged at most
\* once, a later step only after the earlier ones, so that a pattern whose
\* render has returned true has had before-data-merge, write-begin and
\* write-end emitted exactly once each in that order; and the output
\* files change only in the step that follows the write-begin emit of the
\* pattern and ends with its write-end emit, which changes no other
\* pattern's files.
C22_PatternEventOrder ==
  /\ [](\A p \in Pats :
          /\ \A n \in 1..5 : Cardinality(At(<<RenderSteps[n], p>>)) <= 1
          /\ \A n \in 2..5 :
               \A j \in At(<<RenderSteps[n], p>>) :
                 \E i \in At(<<RenderSteps[n - 1], p>>) : i < j)
  /\ [][ (fs' # fs) =>
           LET p == toBuild[idx]
           IN /\ pc = "wbegin" /\ pc' = "wend"
              /\ log[Len(log)] = <<"write-begin", p>>
              /\ log'[Len(log')] = <<"write-end", p>>
              /\ Len(log') = Len(log) + 2
              /\ \A q \in Pats \ {p} : fs'[q] = fs[q] ]_vars

\* One pattern has been rendered to the end and is listed again, another
\* has failed after its before-data-merge event.
C22_Witness ==
  \E p, q \in Pats :
    /\ p # q
    /\ Logged(<<"built", p>>) /\ fs[p] # <<>>
    /\ Logged(<<"skip", p>>)
    /\ Logged(<<"error", q>>) /\ ~Logged(<<"write-begin", q>>)

\* ------------------------------------------------------------------ C23
\* The pass has ended: its promise has settled or the process has exited.
PassOver == pc \in {"settled", "exited_zero", "exited_nonzero"}

\* C23: a file the Phase 1 walk reports with an error is never loaded,
\* processed or added to the collection, and a file the Phase 2 walk
\* reports with an error is never handed to process_pattern_recursive;
\* every other file is loaded before the process steps start and is handed
\* to process_pattern_recursive in Phase 2; and the pass goes on to its end
\* whatever the walks report.
C23_TraversalErrorSkipsFile ==
  /\ [](/\ \A p \in diveErrors :
             /\ ~Logged(<<"load", p>>)
             /\ ~Logged(<<"process", p>>)
             /\ p \notin Range(patterns)
             /\ pstate[p] = ABSENT
        /\ \A p \in diveSyncErrors : ~Logged(<<"recursive", p>>)
        /\ pc \in {"process", "iteration_end"} \cup FromRenderLoop =>
             \A p \in Pats \ diveErrors :
               Logged(<<"load", p>>) /\ Logged(<<"process", p>>)
        /\ pc \in FromRenderLoop =>
             \A p \in Pats \ diveSyncErrors : Logged(<<"recursive", p>>))
  /\ (pc = "walk" ~> PassOver)

\* A pass in which each walk reported an error for a different file has
\* rendered the remaining files and persisted the graph.
C23_Witness ==
  /\ pc = "settled"
  /\ Logged(<<"store", 0>>)
  /\ diveErrors # {} /\ diveSyncErrors # {} /\ diveErrors # diveSyncErrors
  /\ \A p \in diveErrors : Logged(<<"dive-error", p>>)
  /\ \A p \in diveSyncErrors : Logged(<<"diveSync-error", p>>)
  /\ \A p \in Pats \ diveErrors : Logged(<<"built", p>>)

\* ------------------------------------------------------------------ C24
\* The file of the given type among the output files of pattern p.
FilesOfType(p, type) == {i \in DOMAIN fs[p] : fs[p][i].type = type}

\* C24: once the files of a pattern are written there is exactly one
\* rendered, one rawTemplate and one markupOnly file among them, and with
\* cleanOutputHtml off the rendered file holds the head fragment, the
\* pattern body and the foot fragment in that order and nothing else, the
\* markupOnly file holds the pattern body, and the rawTemplate file holds
\* the template of the pattern as it was read.
C24_FileContents ==
  \A p \in Pats :
    Logged(<<"write", p>>) =>
      /\ Len(fs[p]) >= 3
      /\ \A t \in {"rendered", "rawTemplate", "markupOnly"} :
           Cardinality(FilesOfType(p, t)) = 1
      /\ ~cleanOutputHtml =>
           /\ \A i \in FilesOfType(p, "rendered") :
                fs[p][i].content = << <<"head", cacheBuster>>,
                                      <<"body", p, cacheBuster>>,
                                      <<"foot", p, cacheBuster>> >>
           /\ \A i \in FilesOfType(p, "markupOnly") :
                fs[p][i].content = <<"body", p, cacheBuster>>
           /\ \A i \in FilesOfType(p, "rawTemplate") :
                fs[p][i].content = <<"template", p>>

\* With beautification off a pattern was rendered to the end, a file of
\* its engine written next to the three.
C24_Witness ==
  \E p \in Pats :
    /\ Logged(<<"write-end", p>>)
    /\ ~cleanOutputHtml
    /\ addOutputFiles
    /\ Len(fs[p]) = 4
    /\ pstate[p] = CLEAN

\* ------------------------------------------------------------------ C28
\* A step of buildPatterns before Phase 1 has thrown in this pass.
ThrewBeforePhase1 == \E s \in PrePhase1Steps : Logged(<<"throw", s>>)

\* C28: a throw before Phase 1 leaves buildPatterns and its caller in the
\* step that follows the acceptance, with isBusy set before and after and
\* nothing of the walk started; from then on the flag stays set, the
\* callback is not invoked, no pass starts, and every request that arrives
\* is dropped without changing anything.
C28_ThrowBeforePhase1 ==
  /\ [](pc = "threw" =>
          /\ isBusy
          /\ ThrewBeforePhase1
          /\ inFlight = 0
          /\ ~Logged(<<"callback", 0>>)
          /\ ~Logged(<<"global-data-end", 0>>)
          /\ Entries("load") = {})
  /\ [][ (pc' = "threw" /\ pc # "threw") =>
           pc = "build_start" /\ isBusy /\ inFlight = 1 ]_vars
  /\ [][ (pc = "threw") =>
           /\ lastCall' = "dropped"
           /\ UNCHANGED <<config, datav, isBusy, nListeners, pc, passv,
                          graphv, patv, loopv, outv, modified, log, passes,
                          inFlight, thrown, rerun>> ]_vars

\* After a completed build the second pass threw while loading the graph,
\* and a request that came later was dropped.
C28_Witness ==
  /\ pc = "threw"
  /\ passes = 2
  /\ nListeners = 1
  /\ Logged(<<"throw", "graph-load">>)
  /\ lastCall = "dropped"

\* ------------------------------------------------------------------ C25
\* A step of the pass has thrown or the process has exited.
PassFailed ==
  \/ thrown
  \/ Logged(<<"export-error", 0>>)
  \/ ThrewBeforePhase1
  \/ Logged(<<"rejected", 0>>)
  \/ pc \in {"exited_zero", "exited_nonzero"}

\* The callback of the pass is being invoked.
CallbackInvoked ==
  /\ pc = "callback"
  /\ ~isBusy
  /\ Cardinality(At(<<"callback", 0>>)) = 1
  /\ \E i \in At(<<"store", 0>>) : \A j \in At(<<"callback", 0>>) : i < j

\* C25: an accepted call whose pass neither throws nor exits leads to the
\* invocation of its callback, with the flag clear and the graph persisted
\* before; in every pass the callback is invoked at most once, the flag is
\* cleared by the step that invokes it and is clear while it runs.
C25_AcceptedCallCompletes ==
  /\ ((pc = "build_start" /\ isBusy) ~> (CallbackInvoked \/ PassFailed))
  /\ [](Cardinality(At(<<"callback", 0>>)) <= 1)
  /\ [](pc = "callback" => ~isBusy)
  /\ []((pc = "callback" /\ ~thrown) => CallbackInvoked)
  /\ [][ (pc' = "callback" /\ pc # "callback") =>
           isBusy /\ ~isBusy' /\ pc = "settled" ]_vars

\* A patternsonly pass that rendered every pattern and threw nowhere is in
\* its callback.
C25_Witness ==
  /\ CallbackInvoked
  /\ ~PassFailed
  /\ kind = "patternsonly"
  /\ \A p \in Pats : Logged(<<"built", p>>)

\* ------------------------------------------------------------------ C26
\* C26: the number of listeners of each change event never goes down and
\* goes up by one exactly when the continuation of a build runs to its
\* callback; and however many listeners are registered, a change event
\* raised at rest is taken up, the step that takes up a change event starts
\* one pass and sets the flag that was clear, and no two passes are ever
\* in flight.
C26_ListenersStartOnePass ==
  /\ [](inFlight <= 1)
  /\ [][ nListeners' >= nListeners ]_vars
  /\ [][ (nListeners' # nListeners) <=>
           (pc = "settled" /\ pc' = "callback" /\ kind # "patternsonly") ]_vars
  /\ [][ (nListeners' # nListeners) => nListeners' = nListeners + 1 ]_vars
  /\ [][ (lastCall' = "accepted") =>
           /\ ~isBusy /\ isBusy'
           /\ passes' = passes + 1
           /\ inFlight' = 1
           /\ kind' \in Triggers
           /\ pc' = "build_start" ]_vars
  /\ [][ (pc = "idle" /\ ~isBusy /\ lastCall' # "none") =>
           lastCall' = "accepted" ]_vars

\* With more listeners registered than builds were completed at the start,
\* the second change event raised at rest has started the second pass.
C26_Witness ==
  /\ nListeners = MaxListeners + 1
  /\ passes = 2
  /\ inFlight = 1
  /\ kind = "global-change"
  /\ lastCall = "accepted"

\* ------------------------------------------------------------------ C27
\* The catch handler of buildPatterns has run in this pass.
Caught == thrown \/ Logged(<<"export-error", 0>>)

\* C27 as stated: a pass in which a step after discovery threw has not
\* persisted the graph.
C27_Original == Caught => ~Logged(<<"store", 0>>)

\* C27, amended: the graph is persisted at most once in a pass, after every
\* entry of the render set has been skipped or rendered to the end and
\* after every event and write of the loop; a pass in which a render threw
\* does not persist it; a pass in which an export threw has persisted it
\* before.
C27_GraphPersistedOnce ==
  LET S == At(<<"store", 0>>)
  IN /\ Cardinality(S) <= 1
     /\ thrown => S = {}
     /\ \A s \in S :
          /\ \A i \in 1..Len(toBuild) :
               \E j \in 1..(s - 1) :
                 log[j] \in {<<"built", toBuild[i]>>, <<"skip", toBuild[i]>>}
          /\ \A j \in DOMAIN log :
               log[j][1] \in PatternEvents \cup {"write", "built", "skip"} =>
                 j < s
          /\ \A j \in At(<<"export-error", 0>>) : s < j
     /\ Logged(<<"export-error", 0>>) => S # {}

\* A pass that rendered every pattern and persisted the graph had an export
\* fail, and its callback is running.
C27_Witness ==
  /\ pc = "callback"
  /\ Logged(<<"store", 0>>)
  /\ Logged(<<"export-error", 0>>)
  /\ \A p \in Pats : Logged(<<"built", p>>)
  /\ graphFile.exists
====
